---- MODULE Spec2Model ----
(***************************************************************************)
(* Multi-agent code review: the agent registry and review_code run of      *)
(* CodeReviewOrchestrator (src/core/orchestrator.py), the response         *)
(* handling of ReviewAgent.analyze_code (src/core/agent.py) and the data   *)
(* model of src/core/models.py.                                            *)
(***************************************************************************)
EXTENDS Integers, Sequences, FiniteSets, TLC

VARIABLES
    agents,         \* CodeReviewOrchestrator.agents: insertion-ordered dict, as a sequence of agents with distinct names
    pc,             \* position of the caller: "idle", "running" (inside review_code's loop), "done", "raised"
    file_path,      \* review_code's file_path argument of the run in progress
    agent_reviews,  \* review_code's local dict agent_reviews, as a sequence of <<name, AgentReview>>
    all_findings,   \* review_code's local list all_findings
    sorted_findings,\* review_code's local list sorted_findings
    responses,      \* the raw completion results received so far in this run, one per executed agent
    result,         \* what review_code gave its caller: a CodeReviewReport, or NoReport
    error,          \* the exception that left review_code, or "none"
    clock,          \* time the current run has spent blocked in completion calls
    completedAt,    \* clock value at which each executed agent's call ended
    calls,          \* the arguments of the register_agent calls made so far, where they are recorded
    prev,           \* an earlier run whose report the caller kept (registry, path, answers, call end times, report), or NoRun
    code,           \* detect_by_content's code argument: the source text, as the set of the searched substrings it contains
    path_chars,     \* detect_by_content's file_path argument, as a sequence of characters
    language,       \* what detect_by_content returned for (code, path), or NoLanguage before the call
    rendered,       \* the dictionary _report_to_dict made of the report, or NoDict
    files,          \* analyze_directory's list files: the paths the pattern matched, each a regular file or not, readable or not
    file_idx,       \* position of analyze_directory's loop in files
    results,        \* the dict results of the directory analysis, as a sequence of <<path, entry>>
    dir_pc,         \* position of the caller of a directory analysis: "idle", "looping", "gathering", "returned"
    tasks,          \* analyze_directory_async's coroutines, one per regular file, with what each ended with
    http_request,   \* the request the webhook handler was last called with, or NoRequest
    http_response,  \* the handler's answer to it: status and body
    review_pr_calls,\* number of review_pr calls made by the webhook handler
    comments_posted,\* number of comments posted on pull requests
    prompts         \* per executed agent of the run: its name, the language it resolved, the system prompt it selected

vars == <<agents, pc, file_path, agent_reviews, all_findings, sorted_findings, responses, result,
          error, clock, completedAt, calls, prev, code, path_chars, language,
          prompts, rendered, files, file_idx, results, dir_pc, tasks,
          http_request, http_response, review_pr_calls, comments_posted>>

(* The webhook handler's part of the state. *)
webhook_state == <<http_request, http_response, review_pr_calls, comments_posted>>

(* The directory analysis's part of the state. *)
directory == <<files, file_idx, results, dir_pc, tasks>>

(* The language detector's part of the state. *)
detector == <<code, path_chars, language>>

----------------------------------------------------------------------------
(* Bounds of the model *)

(* Paths the pattern of a directory analysis matches. *)
MaxFiles == 2

(* review_pr calls counted in review_pr_calls. *)
MaxReviews == 2

MaxFindings == 2

MaxClock == 2

(* Number of register_agent calls recorded in calls. *)
MaxCalls == 3

(* Findings in one answer where the top recommendations are examined. *)
MaxTopFindings == 6

(* The caller's overall deadline, in clock ticks. *)
Deadline == 1

(* Characters in a path given to the language detector. *)
MaxPathLen == 4

----------------------------------------------------------------------------
(* Data model *)

(* Optional[int] line_number: None. *)
NoneLine == -1

(* A key absent from a JSON object. *)
Missing == "<missing>"

NoReport == [file_name |-> "<none>"]

(* No webhook request handled yet. *)
NoRequest == [signature |-> "<none>"]

NoResponse == [status |-> 0, body |-> "<none>"]

(* No dictionary made of a report yet. *)
NoDict == [file_name |-> "<none>"]

(* No language detected yet. *)
NoLanguage == "<none>"

NoRun ==
    [agents |-> <<>>, file_path |-> "", responses |-> <<>>, completedAt |-> <<>>,
     report |-> NoReport]

SeverityLevels == {"critical", "high", "medium", "low", "info"}

(* ReviewAgent subclasses' names (agents/*.py) and str ordering among them. *)
AgentNames == {"Security", "Performance", "Style"}

NameRank(n) ==
    CASE n = "Architecture" -> 0
      [] n = "Performance" -> 1
      [] n = "Security" -> 2
      [] n = "Style" -> 3

(* str.lower() of an agent name. *)
Lower(n) ==
    CASE n = "Architecture" -> "architecture"
      [] n = "Performance" -> "performance"
      [] n = "Security" -> "security"
      [] n = "Style" -> "style"

(* ReviewAgent.__init__'s model argument distinguishes two agents of one name. *)
AgentModels == {"claude-3-5-sonnet-20241022", "claude-3-haiku"}

ReviewAgent(name, model) == [name |-> name, model |-> model]

CodeReviewFinding(severity, category, line_number, description, recommendation, agent) ==
    [severity |-> severity, category |-> category, line_number |-> line_number,
     description |-> description, recommendation |-> recommendation, agent |-> agent]

AgentReview(agent_name, findings, summary) ==
    [agent_name |-> agent_name, findings |-> findings, summary |-> summary,
     thinking_process |-> ""]

----------------------------------------------------------------------------
(* Sequence helpers *)

Range(s) == {s[i] : i \in DOMAIN s}

SeqsUpTo(S, n) == UNION {[1..k -> S] : k \in 0..n}

Min(a, b) == IF a <= b THEN a ELSE b

RECURSIVE CountIf(_, _)
CountIf(s, sev) ==
    IF s = <<>> THEN 0
    ELSE (IF Head(s).severity = sev THEN 1 ELSE 0) + CountIf(Tail(s), sev)

----------------------------------------------------------------------------
(* ReviewAgent.analyze_code: what it makes of the completion service's answer *)

(* The service's answer to one messages.create call.                        *)
(*   kind "api_error":  the call raises                                     *)
(*   kind "not_json":   the text is not JSON, json.loads raises             *)
(*   kind "non_object": the text is JSON but no object, result.get raises   *)
(*   kind "object":     a JSON object; has_findings says whether it has the *)
(*                      key "findings", summary is Missing without the key  *)
Response(kind, has_findings, findings, summary) ==
    [kind |-> kind, has_findings |-> has_findings, findings |-> findings,
     summary |-> summary]

(* One element of the answer's "findings" array; a key the element lacks is Missing *)
(* (line_number is read with .get, so an absent key and null both give None). *)
RawFinding(severity, line_number, description, recommendation) ==
    [severity |-> severity, line_number |-> line_number,
     description |-> description, recommendation |-> recommendation]

(* f["severity"], f["description"], f["recommendation"] raise KeyError on an absent key. *)
LacksRequiredKey(f) ==
    \/ f.severity = Missing
    \/ f.description = Missing
    \/ f.recommendation = Missing

(* As BuildFindings, the category being the agent's name as it is written. *)
BuildFindingsNamed(name, raw) ==
    [i \in 1..Len(raw) |->
        CodeReviewFinding(raw[i].severity, name, raw[i].line_number,
                          raw[i].description, raw[i].recommendation, name)]

(* The list comprehension building CodeReviewFinding objects: no element is *)
(* checked or dropped, the severity is taken as it comes. *)
BuildFindings(name, raw) ==
    [i \in 1..Len(raw) |->
        CodeReviewFinding(raw[i].severity, Lower(name), raw[i].line_number,
                          raw[i].description, raw[i].recommendation, name)]

(* result.get("findings", []) *)
RawFindingsOf(resp) == IF resp.has_findings THEN resp.findings ELSE <<>>

(* result.get("summary", "") *)
SummaryOf(resp) == IF resp.summary = Missing THEN "" ELSE resp.summary

(* The exception analyze_code leaves with, or "none". *)
RaisedBy(resp) ==
    CASE resp.kind = "api_error" -> "APIError"
      [] resp.kind = "not_json" -> "JSONDecodeError"
      [] resp.kind = "non_object" -> "AttributeError"
      [] OTHER ->
            IF \E i \in 1..Len(RawFindingsOf(resp)) : LacksRequiredKey(RawFindingsOf(resp)[i])
            THEN "KeyError"
            ELSE "none"

(* As AnalyzeCodeReview, but an answer that came after the deadline is given up: *)
(* the review is empty. *)
AnalyzeCodeReviewInTime(agent, resp) ==
    IF clock > Deadline
    THEN AgentReview(agent.name, <<>>, "")
    ELSE AgentReview(agent.name, BuildFindings(agent.name, RawFindingsOf(resp)), SummaryOf(resp))

(* The AgentReview analyze_code returns when it does not raise. *)
AnalyzeCodeReview(agent, resp) ==
    AgentReview(agent.name, BuildFindings(agent.name, RawFindingsOf(resp)), SummaryOf(resp))

----------------------------------------------------------------------------
(* CodeReviewOrchestrator: registry *)

NamesOf(reg) == [i \in 1..Len(reg) |-> reg[i].name]

IndexOfName(reg, name) == CHOOSE i \in 1..Len(reg) : reg[i].name = name

(* As DictSet, but a name already present keeps its first agent (setdefault). *)
DictSetDefault(reg, agent) ==
    IF \E i \in 1..Len(reg) : reg[i].name = agent.name
    THEN reg
    ELSE Append(reg, agent)

(* As DictSet, but an existing key is deleted first, so that it moves to the end. *)
DictSetMoveToEnd(reg, agent) ==
    Append(SelectSeq(reg, LAMBDA a : a.name # agent.name), agent)

(* self.agents[agent.name] = agent on an insertion-ordered dict: a new key is *)
(* appended, an existing key keeps its place and gets the new value. *)
DictSet(reg, agent) ==
    IF \E i \in 1..Len(reg) : reg[i].name = agent.name
    THEN [reg EXCEPT ![IndexOfName(reg, agent.name)] = agent]
    ELSE Append(reg, agent)

----------------------------------------------------------------------------
(* CodeReviewOrchestrator.review_code: aggregation *)

(* sorted_findings[:5] *)
TopCount == 5

(* severity_order.get(f.severity, 5) *)
SeverityOrder(sev) ==
    CASE sev = "critical" -> 0
      [] sev = "high" -> 1
      [] sev = "medium" -> 2
      [] sev = "low" -> 3
      [] sev = "info" -> 4
      [] OTHER -> 5

(* f.line_number or 0 *)
LineOrZero(f) == IF f.line_number = NoneLine THEN 0 ELSE f.line_number

(* As SortKey, by severity alone. *)
SortKeySeverity(f) == <<SeverityOrder(f.severity)>>

(* key=lambda f: (severity_order.get(f.severity, 5), f.line_number or 0) *)
SortKey(f) == <<SeverityOrder(f.severity), LineOrZero(f)>>

(* Tuple comparison of two keys of equal length. *)
RECURSIVE TupleLess(_, _)
TupleLess(a, b) ==
    IF a = <<>> THEN FALSE
    ELSE IF Head(a) # Head(b) THEN Head(a) < Head(b)
    ELSE TupleLess(Tail(a), Tail(b))

(* sorted() is stable: an element goes after every element whose key is not greater. *)
InsertByKey(sorted, f) ==
    LET later == {j \in 1..Len(sorted) : TupleLess(SortKey(f), SortKey(sorted[j]))}
        at == IF later = {} THEN Len(sorted) + 1
              ELSE CHOOSE j \in later : \A k \in later : j <= k
    IN  SubSeq(sorted, 1, at - 1) \o <<f>> \o SubSeq(sorted, at, Len(sorted))

RECURSIVE SortedFindings(_)
SortedFindings(findings) ==
    IF findings = <<>> THEN <<>>
    ELSE InsertByKey(SortedFindings(SubSeq(findings, 1, Len(findings) - 1)),
                     findings[Len(findings)])

(* As KeepRecommendation, without the membership test. *)
KeepRecommendationAlways(top, rec) == rec # ""

(* if finding.recommendation and finding.recommendation not in top_recommendations *)
KeepRecommendation(top, rec) == rec # "" /\ rec \notin Range(top)

RECURSIVE CollectRecommendations(_, _)
CollectRecommendations(findings, top) ==
    IF findings = <<>> THEN top
    ELSE CollectRecommendations(Tail(findings),
            IF KeepRecommendation(top, Head(findings).recommendation)
            THEN Append(top, Head(findings).recommendation)
            ELSE top)

(* for finding in sorted_findings[:5]: ... *)
TopRecommendations(sorted) ==
    CollectRecommendations(SubSeq(sorted, 1, Min(TopCount, Len(sorted))), <<>>)

SeverityCounts(findings) ==
    [sev \in SeverityLevels |-> CountIf(findings, sev)]

(* _extract_filename: the agent attribute of the first review's first finding. *)
ExtractFilename(reviews) ==
    IF reviews # <<>> /\ reviews[1][2].findings # <<>>
    THEN reviews[1][2].findings[1].agent
    ELSE "Unknown File"

RECURSIVE SummaryLines(_)
SummaryLines(reviews) ==
    IF reviews = <<>> THEN <<>>
    ELSE (IF Head(reviews)[2].summary # ""
          THEN <<<<Head(reviews)[1], Head(reviews)[2].summary>>>>
          ELSE <<>>) \o SummaryLines(Tail(reviews))

(* _build_summary: the text's parts, in the order the lines are joined. *)
BuildSummary(reviews, counts) ==
    [header |-> ExtractFilename(reviews),
     total |-> counts["critical"] + counts["high"] + counts["medium"]
               + counts["low"] + counts["info"],
     counts |-> counts,
     lines |-> SummaryLines(reviews)]

(* len(all_findings) *)
TotalIssues(findings) == Len(findings)

CodeReviewReport(path, reviews, findings, sorted) ==
    [file_name |-> path,
     total_issues |-> TotalIssues(findings),
     critical_count |-> SeverityCounts(findings)["critical"],
     high_count |-> SeverityCounts(findings)["high"],
     medium_count |-> SeverityCounts(findings)["medium"],
     low_count |-> SeverityCounts(findings)["low"],
     info_count |-> SeverityCounts(findings)["info"],
     agent_reviews |-> reviews,
     consolidated_summary |-> BuildSummary(reviews, SeverityCounts(findings)),
     top_recommendations |-> TopRecommendations(sorted)]

----------------------------------------------------------------------------
(* LanguageDetector *)

LanguageTags == {"python", "javascript", "typescript", "go", "rust", "unknown"}

(* LANGUAGE_EXTENSIONS, each extension as its characters. *)
LANGUAGE_EXTENSIONS ==
    {<<<<".", "p", "y">>, "python">>,
     <<<<".", "j", "s">>, "javascript">>,
     <<<<".", "j", "s", "x">>, "javascript">>,
     <<<<".", "t", "s">>, "typescript">>,
     <<<<".", "t", "s", "x">>, "typescript">>,
     <<<<".", "g", "o">>, "go">>,
     <<<<".", "r", "s">>, "rust">>}

(* str.lower() on one character. *)
LowerChar(c) ==
    CASE c = "P" -> "p"
      [] c = "Y" -> "y"
      [] c = "G" -> "g"
      [] c = "O" -> "o"
      [] OTHER -> c

LowerChars(cs) == [i \in 1..Len(cs) |-> LowerChar(cs[i])]

(* Path(file_path).name: the last component of the path that is neither    *)
(* empty nor ".", or the empty name when there is none.                     *)
KeepComponent(cur, last) == IF cur \in {<<>>, <<".">>} THEN last ELSE cur

RECURSIVE LastComponent(_, _, _)
LastComponent(cs, cur, last) ==
    IF cs = <<>> THEN KeepComponent(cur, last)
    ELSE IF Head(cs) = "/"
         THEN LastComponent(Tail(cs), <<>>, KeepComponent(cur, last))
         ELSE LastComponent(Tail(cs), Append(cur, Head(cs)), last)

PathName(cs) == LastComponent(cs, <<>>, <<>>)

(* name.rfind("."), counted from 1; 0 when the name has no dot. *)
LastDot(name) ==
    IF \E i \in 1..Len(name) : name[i] = "."
    THEN CHOOSE i \in 1..Len(name) :
            /\ name[i] = "."
            /\ \A j \in (i + 1)..Len(name) : name[j] # "."
    ELSE 0

(* Path(file_path).suffix: the name from its last dot on, when that dot is  *)
(* neither the first nor the last character of the name.                    *)
Suffix(cs) ==
    LET name == PathName(cs)
        i == LastDot(name)
    IN  IF 1 < i /\ i < Len(name) THEN SubSeq(name, i, Len(name)) ELSE <<>>

(* As detect_by_extension, the table read without a default: an extension   *)
(* that is not in the table gives None.                                     *)
detect_by_extension_no_default(fpath) ==
    LET ext == LowerChars(Suffix(fpath))
    IN  IF \E e \in LANGUAGE_EXTENSIONS : e[1] = ext
        THEN (CHOOSE e \in LANGUAGE_EXTENSIONS : e[1] = ext)[2]
        ELSE "None"

(* detect_by_extension: LANGUAGE_EXTENSIONS.get(ext, "unknown") *)
detect_by_extension(fpath) ==
    LET ext == LowerChars(Suffix(fpath))
    IN  IF \E e \in LANGUAGE_EXTENSIONS : e[1] = ext
        THEN (CHOOSE e \in LANGUAGE_EXTENSIONS : e[1] = ext)[2]
        ELSE "unknown"

(* The substrings detect_by_content searches the code for. *)
Patterns ==
    {"import ", "from ", "import sys", "function ", "const ", "let ", "var ",
     "func ", "package ", "fn "}

(* pattern in code *)
Contains(text, pattern) == pattern \in text

(* The if/elif chain over the code's content. *)
detect_from_patterns(text) ==
    IF Contains(text, "import ")
       /\ (Contains(text, "from ") \/ Contains(text, "import sys"))
    THEN "python"
    ELSE IF \/ Contains(text, "function ")
            \/ Contains(text, "const ")
            \/ Contains(text, "let ")
            \/ Contains(text, "var ")
    THEN "javascript"
    ELSE IF Contains(text, "func ") /\ Contains(text, "package ")
    THEN "go"
    ELSE IF Contains(text, "fn ") /\ Contains(text, "let ")
    THEN "rust"
    ELSE "unknown"

(* As detect_by_content, the content looked at before the extension. *)
detect_by_content_first(text, fpath) ==
    IF detect_from_patterns(text) # "unknown"
    THEN detect_from_patterns(text)
    ELSE detect_by_extension(fpath)

(* detect_by_content(code, file_path) *)
detect_by_content(text, fpath) ==
    IF fpath # <<>> /\ detect_by_extension(fpath) # "unknown"
    THEN detect_by_extension(fpath)
    ELSE detect_from_patterns(text)

----------------------------------------------------------------------------
(* ReviewAgent.analyze_code: language and system prompt *)

(* The keys of language_specific, the same in the four agents. *)
LanguageSpecificKeys == {"python", "javascript", "go", "rust"}

(* As get_system_prompt, the python variant taken for a language without one. *)
get_system_prompt_python_default(name, lang) ==
    [base_prompt |-> name,
     language_specific |-> IF lang \in LanguageSpecificKeys THEN lang ELSE "python"]

(* get_system_prompt: base_prompt + language_specific.get(language, ""), the *)
(* two parts of the text kept apart; each agent has its own base prompt and  *)
(* its own variants.                                                         *)
get_system_prompt(name, lang) ==
    [base_prompt |-> name,
     language_specific |-> IF lang \in LanguageSpecificKeys THEN lang ELSE ""]

(* As ResolveLanguage, the Security agent looking at the extension alone. *)
ResolveLanguageOwnWay(agent) ==
    IF agent.name = "Security"
    THEN detect_by_extension(path_chars)
    ELSE detect_by_content(code, path_chars)

(* language = LanguageDetector.detect_by_content(code, file_path), in the   *)
(* analyze_code call of the given agent.                                    *)
ResolveLanguage(agent) == detect_by_content(code, path_chars)

(* The first two statements of analyze_code. *)
SelectPrompt(agent) ==
    [agent_name |-> agent.name,
     language |-> ResolveLanguage(agent),
     system_prompt |-> get_system_prompt(agent.name, ResolveLanguage(agent))]

----------------------------------------------------------------------------
(* CodeReviewAnalyzer._report_to_dict *)

(* One finding as the dictionary has it: code_snippet and agent are left out. *)
FindingToDict(f) ==
    [severity |-> f.severity, category |-> f.category, line_number |-> f.line_number,
     description |-> f.description, recommendation |-> f.recommendation]

ReviewToDict(review) ==
    [findings |-> [i \in 1..Len(review.findings) |-> FindingToDict(review.findings[i])],
     summary |-> review.summary]

report_to_dict(report) ==
    [file_name |-> report.file_name,
     total_issues |-> report.total_issues,
     severity_breakdown |->
        [critical |-> report.critical_count, high |-> report.high_count,
         medium |-> report.medium_count, low |-> report.low_count,
         info |-> report.info_count],
     consolidated_summary |-> report.consolidated_summary,
     top_recommendations |-> report.top_recommendations,
     agent_reviews |->
        [k \in 1..Len(report.agent_reviews) |->
            <<report.agent_reviews[k][1], ReviewToDict(report.agent_reviews[k][2])>>]]

----------------------------------------------------------------------------
(* Inputs *)

FilePaths == {"app.py"}

(* Every agent a caller may construct and register. *)
Agents == {ReviewAgent(n, m) : n \in AgentNames, m \in AgentModels}

ObjectResponses(findings, n, summaries) ==
    {Response("object", TRUE, fs, s) : fs \in SeqsUpTo(findings, n), s \in summaries}

FailedCalls ==
    {Response("api_error", FALSE, <<>>, Missing),
     Response("not_json", FALSE, <<>>, Missing)}

MainFindings ==
    {RawFinding("critical", NoneLine, "d", "r1"),
     RawFinding("urgent", NoneLine, "d", "r1")}

MainResponses == FailedCalls \cup ObjectResponses(MainFindings, MaxFindings, {"ok"})

----------------------------------------------------------------------------
(* State machine *)

InitReview ==
    /\ agents = <<>>
    /\ pc = "idle"
    /\ file_path = ""
    /\ agent_reviews = <<>>
    /\ all_findings = <<>>
    /\ sorted_findings = <<>>
    /\ responses = <<>>
    /\ result = NoReport
    /\ error = "none"
    /\ clock = 0
    /\ completedAt = <<>>
    /\ calls = <<>>
    /\ prev = NoRun
    /\ prompts = <<>>
    /\ rendered = NoDict
    /\ files = <<>>
    /\ file_idx = 1
    /\ results = <<>>
    /\ dir_pc = "idle"
    /\ tasks = <<>>
    /\ http_request = NoRequest
    /\ http_response = NoResponse
    /\ review_pr_calls = 0
    /\ comments_posted = 0

Init ==
    /\ InitReview
    /\ code = {}
    /\ path_chars = <<>>
    /\ language = NoLanguage

(* As RegisterAgent, called from another thread at any time, a run in     *)
(* progress or not.                                                         *)
RegisterAgentAnytime(agent) ==
    /\ agents' = DictSet(agents, agent)
    /\ UNCHANGED <<pc, file_path, agent_reviews, all_findings, sorted_findings,
                   responses, result, error, clock, completedAt, calls, prev>>
    /\ UNCHANGED detector
    /\ UNCHANGED prompts
    /\ UNCHANGED rendered
    /\ UNCHANGED directory
    /\ UNCHANGED webhook_state

(* register_agent(agent). Every call is made by _setup_agents while the     *)
(* analyzer is constructed, the caller's single thread not being inside     *)
(* review_code; the request handlers of the dashboard only run reviews.     *)
RegisterAgent(agent) ==
    /\ pc = "idle"
    /\ agents' = DictSet(agents, agent)
    /\ UNCHANGED <<pc, file_path, agent_reviews, all_findings, sorted_findings,
                   responses, result, error, clock, completedAt, calls, prev>>
    /\ UNCHANGED detector
    /\ UNCHANGED prompts
    /\ UNCHANGED rendered
    /\ UNCHANGED directory
    /\ UNCHANGED webhook_state

(* register_agent(agent), its argument recorded. *)
RegisterAgentRecorded(agent) ==
    /\ pc = "idle"
    /\ Len(calls) < MaxCalls
    /\ agents' = DictSet(agents, agent)
    /\ calls' = Append(calls, agent)
    /\ UNCHANGED <<pc, file_path, agent_reviews, all_findings, sorted_findings,
                   responses, result, error, clock, completedAt, prev>>
    /\ UNCHANGED detector
    /\ UNCHANGED prompts
    /\ UNCHANGED rendered
    /\ UNCHANGED directory
    /\ UNCHANGED webhook_state

RECURSIVE FindingsOfReviews(_)
FindingsOfReviews(reviews) ==
    IF reviews = <<>> THEN <<>>
    ELSE Head(reviews)[2].findings \o FindingsOfReviews(Tail(reviews))

(* As StartReview, all_findings being a list the orchestrator keeps from    *)
(* the run whose report the caller kept.                                    *)
StartReviewKeepingFindings(path) ==
    /\ pc = "idle"
    /\ pc' = "running"
    /\ file_path' = path
    /\ agent_reviews' = <<>>
    /\ all_findings' =
           (IF prev = NoRun THEN <<>> ELSE FindingsOfReviews(prev.report.agent_reviews))
    /\ sorted_findings' = <<>>
    /\ responses' = <<>>
    /\ result' = NoReport
    /\ error' = "none"
    /\ clock' = 0
    /\ completedAt' = <<>>
    /\ UNCHANGED <<agents, calls, prev>>
    /\ UNCHANGED detector
    /\ prompts' = <<>>
    /\ rendered' = NoDict
    /\ UNCHANGED directory
    /\ UNCHANGED webhook_state

(* review_code(code, file_path) is entered: its locals are fresh. *)
StartReview(path) ==
    /\ pc = "idle"
    /\ pc' = "running"
    /\ file_path' = path
    /\ agent_reviews' = <<>>
    /\ all_findings' = <<>>
    /\ sorted_findings' = <<>>
    /\ responses' = <<>>
    /\ result' = NoReport
    /\ error' = "none"
    /\ clock' = 0
    /\ completedAt' = <<>>
    /\ UNCHANGED <<agents, calls, prev>>
    /\ UNCHANGED detector
    /\ prompts' = <<>>
    /\ rendered' = NoDict
    /\ UNCHANGED directory
    /\ UNCHANGED webhook_state

(* The agent the loop over self.agents.items() is at. *)
CurrentAgent == agents[Len(agent_reviews) + 1]

InLoop == pc = "running" /\ Len(agent_reviews) < Len(agents)

(* As StoreReview, the new entry put first. *)
StoreReviewFirst(reviews, name, review) == <<<<name, review>>>> \o reviews

(* agent_reviews[agent_name] = review on the local dict. *)
StoreReview(reviews, name, review) == Append(reviews, <<name, review>>)

(* One pass of the loop: analyze_code on the current agent with the answer    *)
(* resp of the completion service; an exception of analyze_code is not caught *)
(* and leaves review_code. *)
AnalyzeCode(resp) ==
    /\ InLoop
    /\ responses' = Append(responses, resp)
    /\ completedAt' = Append(completedAt, clock)
    /\ IF RaisedBy(resp) # "none"
       THEN /\ pc' = "raised"
            /\ error' = RaisedBy(resp)
            /\ UNCHANGED <<agent_reviews, all_findings>>
       ELSE /\ agent_reviews' =
                  StoreReview(agent_reviews, CurrentAgent.name,
                              AnalyzeCodeReview(CurrentAgent, resp))
            /\ all_findings' = all_findings \o AnalyzeCodeReview(CurrentAgent, resp).findings
            /\ UNCHANGED <<pc, error>>
    /\ UNCHANGED <<agents, file_path, sorted_findings, result, clock, calls, prev>>
    /\ UNCHANGED detector
    /\ prompts' = Append(prompts, SelectPrompt(CurrentAgent))
    /\ UNCHANGED rendered
    /\ UNCHANGED directory
    /\ UNCHANGED webhook_state

(* Time passes while review_code is blocked in a completion call. *)
Tick ==
    /\ InLoop
    /\ clock < MaxClock
    /\ clock' = clock + 1
    /\ UNCHANGED <<agents, pc, file_path, agent_reviews, all_findings, sorted_findings,
                   responses, result, error, completedAt, calls, prev>>
    /\ UNCHANGED detector
    /\ UNCHANGED prompts
    /\ UNCHANGED rendered
    /\ UNCHANGED directory
    /\ UNCHANGED webhook_state

(* After the loop: counts, sort, top recommendations, summary, the report. *)
BuildReport ==
    /\ pc = "running"
    /\ Len(agent_reviews) = Len(agents)
    /\ sorted_findings' = SortedFindings(all_findings)
    /\ result' = CodeReviewReport(file_path, agent_reviews, all_findings, sorted_findings')
    /\ pc' = "done"
    /\ UNCHANGED <<agents, file_path, agent_reviews, all_findings, responses,
                   error, clock, completedAt, calls, prev>>
    /\ UNCHANGED detector
    /\ UNCHANGED prompts
    /\ UNCHANGED rendered
    /\ UNCHANGED directory
    /\ UNCHANGED webhook_state

Finished == pc \in {"done", "raised"}

(* The caller has the report or the exception; review_code's locals are gone. *)
Return ==
    /\ Finished
    /\ pc' = "idle"
    /\ file_path' = ""
    /\ agent_reviews' = <<>>
    /\ all_findings' = <<>>
    /\ sorted_findings' = <<>>
    /\ responses' = <<>>
    /\ result' = NoReport
    /\ error' = "none"
    /\ clock' = 0
    /\ completedAt' = <<>>
    /\ UNCHANGED <<agents, calls, prev>>
    /\ UNCHANGED detector
    /\ prompts' = <<>>
    /\ rendered' = NoDict
    /\ UNCHANGED directory
    /\ UNCHANGED webhook_state

(* The findings of every review sorted as sorted_findings is. *)
SortEachReview(reviews) ==
    [k \in 1..Len(reviews) |->
        <<reviews[k][1],
          [reviews[k][2] EXCEPT !.findings = SortedFindings(reviews[k][2].findings)]>>]

(* As ReportToDict, by a converter that sorts each review's findings in     *)
(* place before it copies them.                                             *)
ReportToDictSorting ==
    /\ pc = "done"
    /\ rendered = NoDict
    /\ result' = [result EXCEPT !.agent_reviews = SortEachReview(result.agent_reviews)]
    /\ rendered' = report_to_dict(result')
    /\ UNCHANGED <<agents, pc, file_path, agent_reviews, all_findings, sorted_findings,
                   responses, error, clock, completedAt, calls, prev>>
    /\ UNCHANGED detector
    /\ UNCHANGED prompts
    /\ UNCHANGED directory
    /\ UNCHANGED webhook_state

(* self._report_to_dict(report) on the report review_code returned: the     *)
(* report is read, nothing is assigned to it.                               *)
ReportToDict ==
    /\ pc = "done"
    /\ rendered = NoDict
    /\ rendered' = report_to_dict(result)
    /\ UNCHANGED <<agents, pc, file_path, agent_reviews, all_findings, sorted_findings,
                   responses, result, error, clock, completedAt, calls, prev>>
    /\ UNCHANGED detector
    /\ UNCHANGED prompts
    /\ UNCHANGED directory
    /\ UNCHANGED webhook_state

(* As Return, the caller keeping the report it was given. *)
KeepReport ==
    /\ pc = "done"
    /\ prev' = [agents |-> agents, file_path |-> file_path, responses |-> responses,
                completedAt |-> completedAt, report |-> result]
    /\ pc' = "idle"
    /\ file_path' = ""
    /\ agent_reviews' = <<>>
    /\ all_findings' = <<>>
    /\ sorted_findings' = <<>>
    /\ responses' = <<>>
    /\ result' = NoReport
    /\ error' = "none"
    /\ clock' = 0
    /\ completedAt' = <<>>
    /\ UNCHANGED <<agents, calls>>
    /\ UNCHANGED detector
    /\ prompts' = <<>>
    /\ rendered' = NoDict
    /\ UNCHANGED directory
    /\ UNCHANGED webhook_state

Next ==
    \/ \E a \in Agents : RegisterAgent(a)
    \/ \E p \in FilePaths : StartReview(p)
    \/ InLoop /\ \E r \in MainResponses : AnalyzeCode(r)
    \/ BuildReport
    \/ Return

Spec == Init /\ [][Next]_vars

(* The registry under recorded register_agent calls, with runs in between. *)
RegistryResponses ==
    {Response("api_error", FALSE, <<>>, Missing),
     Response("object", TRUE, <<RawFinding("high", 3, "d", "r1")>>, "ok")}

NextRegistry ==
    \/ \E a \in Agents : RegisterAgentRecorded(a)
    \/ \E p \in FilePaths : StartReview(p)
    \/ InLoop /\ \E r \in RegistryResponses : AnalyzeCode(r)
    \/ BuildReport
    \/ Return

SpecRegistry == Init /\ [][NextRegistry]_vars

(* Runs whose completion calls take time, and a caller that keeps a report. *)
TimedAgents ==
    {ReviewAgent("Security", "claude-3-5-sonnet-20241022"),
     ReviewAgent("Performance", "claude-3-5-sonnet-20241022")}

TimedResponses ==
    {Response("api_error", FALSE, <<>>, Missing),
     Response("object", TRUE, <<>>, ""),
     Response("object", TRUE, <<RawFinding("high", 3, "d", "r1")>>, "ok")}

NextTimed ==
    \/ \E a \in TimedAgents : RegisterAgent(a)
    \/ \E p \in FilePaths : StartReview(p)
    \/ InLoop /\ \E r \in TimedResponses : AnalyzeCode(r)
    \/ Tick
    \/ BuildReport
    \/ Return
    \/ KeepReport

SpecTimed == Init /\ [][NextTimed]_vars

(* One reviewer with many findings: the selection of top recommendations. *)
TopAgents == {ReviewAgent("Security", "claude-3-5-sonnet-20241022")}

TopFindings ==
    {RawFinding("critical", NoneLine, "d", "r1"),
     RawFinding("high", 7, "d", "r2"),
     RawFinding("high", NoneLine, "d", "r3"),
     RawFinding("medium", 7, "d", "r4"),
     RawFinding("low", NoneLine, "d", "r5"),
     RawFinding("info", 7, "d", "r6")}

TopResponses == ObjectResponses(TopFindings, MaxTopFindings, {"ok"})

NextTop ==
    \/ \E a \in TopAgents : RegisterAgent(a)
    \/ \E p \in FilePaths : StartReview(p)
    \/ InLoop /\ \E r \in TopResponses : AnalyzeCode(r)
    \/ BuildReport
    \/ Return

SpecTop == Init /\ [][NextTop]_vars

(* Two reviewers registered in either order: the order of the sorted findings. *)
OrderFindings ==
    {RawFinding("high", NoneLine, "d", "r1"),
     RawFinding("high", NoneLine, "d", "r2"),
     RawFinding("high", 2, "d", "r1"),
     RawFinding("critical", 2, "d", "r3"),
     RawFinding("urgent", NoneLine, "d", "r1")}

OrderResponses == ObjectResponses(OrderFindings, MaxFindings, {"ok"})

NextOrder ==
    \/ \E a \in TimedAgents : RegisterAgent(a)
    \/ \E p \in FilePaths : StartReview(p)
    \/ InLoop /\ \E r \in OrderResponses : AnalyzeCode(r)
    \/ BuildReport
    \/ Return

SpecOrder == Init /\ [][NextOrder]_vars

(* Answers that parse as JSON but are not the object analyze_code asks for, *)
(* and findings arrays with elements that lack a key or have it empty.      *)
ParseFindings ==
    {RawFinding(s, NoneLine, d, r) :
        s \in {"high", "urgent"}, d \in {"d", "", Missing}, r \in {"r1", Missing}}

ParseResponses ==
    ObjectResponses(ParseFindings, MaxFindings, {"ok"})
    \cup {Response("object", FALSE, <<>>, "ok"),
          Response("object", TRUE, <<>>, Missing),
          Response("non_object", FALSE, <<>>, Missing)}

NextParse ==
    \/ \E a \in TimedAgents : RegisterAgent(a)
    \/ \E p \in FilePaths : StartReview(p)
    \/ InLoop /\ \E r \in ParseResponses : AnalyzeCode(r)
    \/ BuildReport
    \/ Return

SpecParse == Init /\ [][NextParse]_vars

(* The language detector applied to one code text and one path. *)
PathChars == {".", "/", "p", "y", "P", "g", "o"}

Paths == SeqsUpTo(PathChars, MaxPathLen)

(* Every code text, by the searched substrings it contains: a text that    *)
(* contains "import sys" contains "import ".                                *)
Codes == {c \in SUBSET Patterns : "import sys" \in c => "import " \in c}

(* One text for each result of the if/elif chain. *)
SomeCodes ==
    {{}, {"import ", "from "}, {"function "}, {"func ", "package "}, {"fn "}}

SomePaths == {<<>>, <<"p">>, <<"p", ".", "p">>, <<".", "p", "y">>}

InitDetect ==
    /\ InitReview
    /\ language = NoLanguage
    /\ \/ code \in SomeCodes /\ path_chars \in Paths
       \/ code \in Codes /\ path_chars \in SomePaths

(* language = LanguageDetector.detect_by_content(code, file_path) *)
DetectByContent ==
    /\ language = NoLanguage
    /\ language' = detect_by_content(code, path_chars)
    /\ UNCHANGED <<agents, pc, file_path, agent_reviews, all_findings, sorted_findings,
                   responses, result, error, clock, completedAt, calls, prev,
                   code, path_chars, prompts, rendered>>
    /\ UNCHANGED directory
    /\ UNCHANGED webhook_state

NextDetect == DetectByContent

SpecDetect == InitDetect /\ [][NextDetect]_vars

(* Runs over code texts and paths of every language tag. *)
LanguagePaths ==
    {<<>>,
     <<"p", ".", "p", "y">>,
     <<"a", ".", "t", "s">>,
     <<"a", ".", "r", "s">>,
     <<"a", ".", "x">>}

LanguageResponses ==
    {Response("api_error", FALSE, <<>>, Missing),
     Response("object", TRUE, <<RawFinding("high", 3, "d", "r1")>>, "ok")}

InitLanguage ==
    /\ InitReview
    /\ language = NoLanguage
    /\ code \in SomeCodes
    /\ path_chars \in LanguagePaths

NextLanguage ==
    \/ \E a \in TimedAgents : RegisterAgent(a)
    \/ \E p \in FilePaths : StartReview(p)
    \/ InLoop /\ \E r \in LanguageResponses : AnalyzeCode(r)
    \/ BuildReport
    \/ Return

SpecLanguage == InitLanguage /\ [][NextLanguage]_vars

(* Reports converted for renderers; answers whose findings are not in the   *)
(* order of the sort.                                                       *)
RenderFindings ==
    {RawFinding("low", 5, "d", "r1"),
     RawFinding("critical", 2, "d", "r2")}

RenderResponses == ObjectResponses(RenderFindings, MaxFindings, {"ok", ""})

NextRender ==
    \/ \E a \in TimedAgents : RegisterAgent(a)
    \/ \E p \in FilePaths : StartReview(p)
    \/ InLoop /\ \E r \in RenderResponses : AnalyzeCode(r)
    \/ BuildReport
    \/ ReportToDict
    \/ Return

SpecRender == Init /\ [][NextRender]_vars

----------------------------------------------------------------------------
(* CodeReviewAnalyzer.analyze_directory and analyze_directory_async *)

FileNames == <<"a.py", "b.py", "c.py", "d.py">>

(* What path.glob(pattern) gives: distinct paths, each a regular file or    *)
(* not (is_file), and one open() can read or not.                           *)
Listings ==
    UNION {[1..n -> [is_file : BOOLEAN, readable : BOOLEAN]] : n \in 0..MaxFiles}

PathOf(i) == FileNames[i]

(* {"error": str(e)} *)
ErrorEntry(message) == [error |-> message]

(* str(e) of the AttributeError that the expression                         *)
(* self.orchestrator.review_code_async raises: CodeReviewOrchestrator       *)
(* defines no such method.                                                  *)
NoReviewCodeAsync == "'CodeReviewOrchestrator' object has no attribute 'review_code_async'"

(* results[key] = entry *)
StoreEntry(res, key, entry) ==
    IF \E i \in 1..Len(res) : res[i][1] = key
    THEN [res EXCEPT ![CHOOSE i \in 1..Len(res) : res[i][1] = key] = <<key, entry>>]
    ELSE Append(res, <<key, entry>>)

(* analyze_directory(directory, pattern) is entered. *)
AnalyzeDirectory(listing) ==
    /\ dir_pc = "idle"
    /\ pc = "idle"
    /\ files' = listing
    /\ file_idx' = 1
    /\ results' = <<>>
    /\ dir_pc' = "looping"
    /\ UNCHANGED <<agents, pc, file_path, agent_reviews, all_findings, sorted_findings,
                   responses, result, error, clock, completedAt, calls, prev, tasks>>
    /\ UNCHANGED detector
    /\ UNCHANGED <<prompts, rendered>>
    /\ UNCHANGED webhook_state

InDirectoryLoop == dir_pc = "looping" /\ pc = "idle" /\ file_idx <= Len(files)

(* if file.is_file(): false, the loop goes on. *)
SkipNonFile ==
    /\ InDirectoryLoop
    /\ ~files[file_idx].is_file
    /\ file_idx' = file_idx + 1
    /\ UNCHANGED <<agents, pc, file_path, agent_reviews, all_findings, sorted_findings,
                   responses, result, error, clock, completedAt, calls, prev,
                   files, results, dir_pc, tasks>>
    /\ UNCHANGED detector
    /\ UNCHANGED <<prompts, rendered>>
    /\ UNCHANGED webhook_state

(* analyze_file: open() or read() raises, the except clause stores the error. *)
OpenFails ==
    /\ InDirectoryLoop
    /\ files[file_idx].is_file
    /\ ~files[file_idx].readable
    /\ results' = StoreEntry(results, PathOf(file_idx), ErrorEntry("OSError"))
    /\ file_idx' = file_idx + 1
    /\ UNCHANGED <<agents, pc, file_path, agent_reviews, all_findings, sorted_findings,
                   responses, result, error, clock, completedAt, calls, prev,
                   files, dir_pc, tasks>>
    /\ UNCHANGED detector
    /\ UNCHANGED <<prompts, rendered>>
    /\ UNCHANGED webhook_state

(* analyze_file: the file is read and review_code is entered with its path. *)
AnalyzeFile ==
    /\ InDirectoryLoop
    /\ files[file_idx].is_file
    /\ files[file_idx].readable
    /\ StartReview(PathOf(file_idx))

(* As StoreResult, without the try: an exception of analyze_file leaves     *)
(* analyze_directory.                                                       *)
StoreResultNoTry ==
    /\ dir_pc = "looping"
    /\ Finished
    /\ IF pc = "done"
       THEN /\ results' = StoreEntry(results, PathOf(file_idx), report_to_dict(result))
            /\ file_idx' = file_idx + 1
            /\ dir_pc' = dir_pc
       ELSE /\ dir_pc' = "raised"
            /\ UNCHANGED <<results, file_idx>>
    /\ pc' = "idle"
    /\ file_path' = ""
    /\ agent_reviews' = <<>>
    /\ all_findings' = <<>>
    /\ sorted_findings' = <<>>
    /\ responses' = <<>>
    /\ result' = NoReport
    /\ error' = "none"
    /\ clock' = 0
    /\ completedAt' = <<>>
    /\ prompts' = <<>>
    /\ UNCHANGED <<agents, calls, prev, rendered, files, tasks>>
    /\ UNCHANGED detector
    /\ UNCHANGED webhook_state

(* The end of one pass of the loop: review_code returned and the dictionary *)
(* of its report is stored, or it raised and the except clause stores the   *)
(* error.                                                                   *)
StoreResult ==
    /\ dir_pc = "looping"
    /\ Finished
    /\ results' = StoreEntry(results, PathOf(file_idx),
                             IF pc = "done" THEN report_to_dict(result)
                             ELSE ErrorEntry(error))
    /\ file_idx' = file_idx + 1
    /\ pc' = "idle"
    /\ file_path' = ""
    /\ agent_reviews' = <<>>
    /\ all_findings' = <<>>
    /\ sorted_findings' = <<>>
    /\ responses' = <<>>
    /\ result' = NoReport
    /\ error' = "none"
    /\ clock' = 0
    /\ completedAt' = <<>>
    /\ prompts' = <<>>
    /\ UNCHANGED <<agents, calls, prev, rendered, files, dir_pc, tasks>>
    /\ UNCHANGED detector
    /\ UNCHANGED webhook_state

(* return results *)
ReturnResults ==
    /\ dir_pc = "looping"
    /\ pc = "idle"
    /\ file_idx > Len(files)
    /\ dir_pc' = "returned"
    /\ UNCHANGED <<agents, pc, file_path, agent_reviews, all_findings, sorted_findings,
                   responses, result, error, clock, completedAt, calls, prev,
                   files, file_idx, results, tasks>>
    /\ UNCHANGED detector
    /\ UNCHANGED <<prompts, rendered>>
    /\ UNCHANGED webhook_state

DirectoryResponses ==
    {Response("api_error", FALSE, <<>>, Missing),
     Response("not_json", FALSE, <<>>, Missing),
     Response("object", TRUE, <<RawFinding("high", 3, "d", "r1")>>, "ok")}

NextDirectory ==
    \/ dir_pc = "idle" /\ \E a \in TimedAgents : RegisterAgent(a)
    \/ \E l \in Listings : AnalyzeDirectory(l)
    \/ SkipNonFile
    \/ OpenFails
    \/ AnalyzeFile
    \/ InLoop /\ \E r \in DirectoryResponses : AnalyzeCode(r)
    \/ BuildReport
    \/ StoreResult
    \/ ReturnResults

SpecDirectory == Init /\ [][NextDirectory]_vars

(* The regular files of a listing, as positions, in the listing's order. *)
RECURSIVE RegularFiles(_, _)
RegularFiles(listing, i) ==
    IF i > Len(listing) THEN <<>>
    ELSE (IF listing[i].is_file THEN <<i>> ELSE <<>>) \o RegularFiles(listing, i + 1)

(* One coroutine analyze_file_async(str(file)) per regular file. *)
NewTasks(listing) ==
    [k \in 1..Len(RegularFiles(listing, 1)) |->
        [file |-> RegularFiles(listing, 1)[k], state |-> "pending",
         outcome |-> ErrorEntry("none")]]

(* analyze_directory_async(directory, pattern) up to the await; it returns  *)
(* the empty results at once when there is no task.                         *)
AnalyzeDirectoryAsync(listing) ==
    /\ dir_pc = "idle"
    /\ pc = "idle"
    /\ files' = listing
    /\ tasks' = NewTasks(listing)
    /\ results' = <<>>
    /\ dir_pc' = IF NewTasks(listing) = <<>> THEN "returned" ELSE "gathering"
    /\ UNCHANGED <<agents, pc, file_path, agent_reviews, all_findings, sorted_findings,
                   responses, result, error, clock, completedAt, calls, prev, file_idx>>
    /\ UNCHANGED detector
    /\ UNCHANGED <<prompts, rendered>>
    /\ UNCHANGED webhook_state

(* What analyze_file_async ends with: the exception of open() or read(), or *)
(* else the AttributeError of self.orchestrator.review_code_async; gather   *)
(* hands the exception over as the task's result.                           *)
AnalyzeFileAsync(file) ==
    IF ~files[file].readable
    THEN ErrorEntry("OSError")
    ELSE ErrorEntry(NoReviewCodeAsync)

(* One of the coroutines runs to its end; they end in any order. *)
FinishTask(k) ==
    /\ dir_pc = "gathering"
    /\ tasks[k].state = "pending"
    /\ tasks' = [tasks EXCEPT ![k].state = "ended",
                              ![k].outcome = AnalyzeFileAsync(tasks[k].file)]
    /\ UNCHANGED <<agents, pc, file_path, agent_reviews, all_findings, sorted_findings,
                   responses, result, error, clock, completedAt, calls, prev,
                   files, file_idx, results, dir_pc>>
    /\ UNCHANGED detector
    /\ UNCHANGED <<prompts, rendered>>
    /\ UNCHANGED webhook_state

(* gather returns: the results are stored in the order of file_paths. *)
Gather ==
    /\ dir_pc = "gathering"
    /\ \A k \in 1..Len(tasks) : tasks[k].state = "ended"
    /\ results' = [k \in 1..Len(tasks) |-> <<PathOf(tasks[k].file), tasks[k].outcome>>]
    /\ dir_pc' = "returned"
    /\ UNCHANGED <<agents, pc, file_path, agent_reviews, all_findings, sorted_findings,
                   responses, result, error, clock, completedAt, calls, prev,
                   files, file_idx, tasks>>
    /\ UNCHANGED detector
    /\ UNCHANGED <<prompts, rendered>>
    /\ UNCHANGED webhook_state

(* The caller has the results and may analyse another directory. *)
ForgetResults ==
    /\ dir_pc = "returned"
    /\ dir_pc' = "idle"
    /\ files' = <<>>
    /\ file_idx' = 1
    /\ results' = <<>>
    /\ tasks' = <<>>
    /\ UNCHANGED <<agents, pc, file_path, agent_reviews, all_findings, sorted_findings,
                   responses, result, error, clock, completedAt, calls, prev>>
    /\ UNCHANGED detector
    /\ UNCHANGED <<prompts, rendered>>
    /\ UNCHANGED webhook_state

NextDirectoryAsync ==
    \/ dir_pc = "idle" /\ \E a \in TimedAgents : RegisterAgent(a)
    \/ \E l \in Listings : AnalyzeDirectoryAsync(l)
    \/ \E k \in 1..Len(tasks) : FinishTask(k)
    \/ Gather
    \/ ForgetResults

SpecDirectoryAsync == Init /\ [][NextDirectoryAsync]_vars

----------------------------------------------------------------------------
(* create_webhook_handler: the /webhook route *)

(* The secret the handler was created with, and one a stranger may try. *)
webhook_secret == "s3cret"

Secrets == {webhook_secret, "guess"}

(* The JSON object of a request: its "action", and whether it has the keys  *)
(* "pull_request" (with data) and "repository".                             *)
Payloads ==
    [action : {"opened", "synchronize", "closed", Missing},
     has_pr : BOOLEAN, has_repository : BOOLEAN]

(* hmac.new(secret, payload, sha256).hexdigest(): equal for equal secret    *)
(* and payload only.                                                        *)
HmacHex(secret, payload) == [secret |-> secret, payload |-> payload]

(* The X-Hub-Signature-256 header: "sha256=" and the digest somebody made   *)
(* of some payload with some secret, an absent header (""), or a value with *)
(* a character outside ASCII.                                               *)
Sha256Header(secret, payload) ==
    [kind |-> "sha256=", digest |-> HmacHex(secret, payload)]

EmptyHeader == [kind |-> "", digest |-> HmacHex("", Missing)]

NonAsciiHeader == [kind |-> "non_ascii", digest |-> HmacHex("", Missing)]

Signatures ==
    {Sha256Header(sec, p) : sec \in Secrets, p \in Payloads}
    \cup {EmptyHeader, NonAsciiHeader}

(* hmac.compare_digest on two str: TypeError when one has a character       *)
(* outside ASCII, their equality otherwise.                                 *)
CompareDigestRaises(a, b) == a.kind = "non_ascii" \/ b.kind = "non_ascii"

compare_digest(a, b) == a = b

(* verify_webhook_signature(payload, signature, secret) *)
verify_webhook_signature(payload, signature, secret) ==
    compare_digest(signature, Sha256Header(secret, payload))

HttpResponse(status, body) == [status |-> status, body |-> body]

(* What the handler answers and whether it calls review_pr, for a request   *)
(* with the given payload and signature header.                             *)
WebhookAnswer(payload, signature, review_raises) ==
    IF CompareDigestRaises(signature, Sha256Header(webhook_secret, payload))
    THEN [response |-> HttpResponse(500, "TypeError"), reviews |-> FALSE]
    ELSE IF ~verify_webhook_signature(payload, signature, webhook_secret)
    THEN [response |-> HttpResponse(401, "Invalid signature"), reviews |-> FALSE]
    ELSE IF payload.action \notin {"opened", "synchronize"}
    THEN [response |-> HttpResponse(200, "ignored"), reviews |-> FALSE]
    ELSE IF ~payload.has_pr
    THEN [response |-> HttpResponse(400, "No PR data"), reviews |-> FALSE]
    ELSE IF ~payload.has_repository
    THEN [response |-> HttpResponse(500, "KeyError"), reviews |-> FALSE]
    ELSE IF review_raises
    THEN [response |-> HttpResponse(500, "error"), reviews |-> TRUE]
    ELSE [response |-> HttpResponse(200, "success"), reviews |-> TRUE]

(* One POST /webhook: review_pr, when it is called, posts some comments and *)
(* returns or raises.                                                       *)
Webhook(payload, signature, review_raises, posted) ==
    /\ review_pr_calls < MaxReviews
    /\ http_request' = [signature |-> signature, payload |-> payload]
    /\ http_response' = WebhookAnswer(payload, signature, review_raises).response
    /\ IF WebhookAnswer(payload, signature, review_raises).reviews
       THEN /\ review_pr_calls' = review_pr_calls + 1
            /\ comments_posted' = comments_posted + posted
       ELSE UNCHANGED <<review_pr_calls, comments_posted>>
    /\ UNCHANGED <<agents, pc, file_path, agent_reviews, all_findings, sorted_findings,
                   responses, result, error, clock, completedAt, calls, prev>>
    /\ UNCHANGED detector
    /\ UNCHANGED <<prompts, rendered>>
    /\ UNCHANGED directory

NextWebhook ==
    \E p \in Payloads, sig \in Signatures, raises \in BOOLEAN, posted \in 0..1 :
        Webhook(p, sig, raises, posted)

SpecWebhook == Init /\ [][NextWebhook]_vars

----------------------------------------------------------------------------
(* Vocabulary of the claims *)

(* review_code returned a report to its caller. *)
Returned == pc = "done"

(* The k-th executed agent's completion call failed. *)
CallFailed(k) == responses[k].kind = "api_error"

(* An entry of the result mapping that is a Failure outcome of the given kind. *)
IsFailure(review, kind) ==
    /\ "errorKind" \in DOMAIN review
    /\ review.errorKind = kind

RECURSIVE FindingCount(_)
FindingCount(reviews) ==
    IF reviews = <<>> THEN 0
    ELSE Len(Head(reviews)[2].findings) + FindingCount(Tail(reviews))

SeveritySum(report) ==
    report.critical_count + report.high_count + report.medium_count
    + report.low_count + report.info_count

ReviewKeys(reviews) == [i \in 1..Len(reviews) |-> reviews[i][1]]

----------------------------------------------------------------------------
(* Claims *)

(* C1: in every report review_code returns, total_issues equals the sum of  *)
(* the five severity counts, and both equal the number of findings across   *)
(* all reviewer outcomes of the report.                                     *)
C1_TotalIsSeveritySum ==
    Returned =>
        /\ result.total_issues = SeveritySum(result)
        /\ result.total_issues = FindingCount(result.agent_reviews)

(* C2: every run over a registry of N names ends with a result mapping of   *)
(* exactly N entries, one per registered name, whatever the reviewers do.   *)
C2_OneEntryPerReviewer ==
    Finished =>
        /\ result # NoReport
        /\ ReviewKeys(result.agent_reviews) = NamesOf(agents)

(* C3: when a reviewer's completion call fails during a run, the run ends   *)
(* with that reviewer's entry a Failure of kind InvocationError, and every  *)
(* other registered reviewer has been executed.                             *)
C3_FailureIsolated ==
    Finished =>
        \A k \in 1..Len(responses) :
            CallFailed(k) =>
                /\ Len(responses) = Len(agents)
                /\ result # NoReport
                /\ IsFailure(result.agent_reviews[k][2], "InvocationError")

(* C4: a run never raises to its caller; when every registered reviewer     *)
(* fails, the report has total_issues and all five counts 0.                *)
C4_NeverRaises ==
    /\ pc # "raised"
    /\ (Returned /\ \A k \in 1..Len(responses) : RaisedBy(responses[k]) # "none") =>
            /\ result.total_issues = 0
            /\ SeveritySum(result) = 0


(* The last recorded register_agent call made under the name n. *)
LastCallOf(n) ==
    CHOOSE k \in 1..Len(calls) :
        /\ calls[k].name = n
        /\ \A l \in 1..Len(calls) : calls[l].name = n => l <= k

(* C10: after any sequence of register_agent calls the registry holds       *)
(* exactly one entry per distinct name registered, and the entry of a name  *)
(* is the agent passed in the last registration under that name.            *)
C10_LastRegistrationWins ==
    /\ \A i, j \in 1..Len(agents) : agents[i].name = agents[j].name => i = j
    /\ {agents[i].name : i \in 1..Len(agents)} = {calls[k].name : k \in 1..Len(calls)}
    /\ \A i \in 1..Len(agents) : agents[i] = calls[LastCallOf(agents[i].name)]

(* A name was registered twice with different agents, next to another name. *)
C10_Witness ==
    /\ Len(agents) = 2
    /\ \E k, l \in 1..Len(calls) :
        /\ k < l
        /\ calls[k].name = calls[l].name
        /\ calls[k] # calls[l]
        /\ agents[IndexOfName(agents, calls[l].name)] = calls[l]


(* The run that just returned had the registry, path and reviewer answers of *)
(* the run whose report the caller kept. *)
SameRunAsKept ==
    /\ Returned
    /\ prev # NoRun
    /\ prev.agents = agents
    /\ prev.file_path = file_path
    /\ prev.responses = responses

C6_LateReviewerTimesOut ==
    Returned =>
        \A k \in 1..Len(completedAt) :
            completedAt[k] > Deadline =>
                IsFailure(result.agent_reviews[k][2], "Timeout")


NoDuplicates(seq) == \A i, j \in 1..Len(seq) : seq[i] = seq[j] => i = j

(* C7: in every report review_code returns, top_recommendations holds no   *)
(* two equal strings and at most 5 entries.                                 *)
C7_TopDistinctAtMostFive ==
    Returned =>
        /\ NoDuplicates(result.top_recommendations)
        /\ Len(result.top_recommendations) <= 5

(* More than five findings, two of the first five with one recommendation.  *)
C7_Witness ==
    /\ Returned
    /\ Len(sorted_findings) > 5
    /\ \E i, j \in 1..5 :
        i < j /\ sorted_findings[i].recommendation = sorted_findings[j].recommendation
    /\ Len(result.top_recommendations) >= 3

(* The places of the findings of a result mapping: <<reviewer k, position p>>. *)
Places(reviews) ==
    UNION {{<<k, p>> : p \in 1..Len(reviews[k][2].findings)} : k \in 1..Len(reviews)}

FindingAt(reviews, place) == reviews[place[1]][2].findings[place[2]]

(* The canonical key of a finding: severity rank, line or 0, its reviewer,  *)
(* its position in the reviewer's output. The reviewer counts by name as    *)
(* claimed (byName), or by its place in the registry.                       *)
CanonicalKey(reviews, place, byName) ==
    <<SeverityOrder(FindingAt(reviews, place).severity),
      LineOrZero(FindingAt(reviews, place)),
      IF byName THEN NameRank(reviews[place[1]][1]) ELSE place[1],
      place[2]>>

(* The findings at the given places in ascending order of key, least first. *)
RECURSIVE Ascending(_, _, _)
Ascending(reviews, places, byName) ==
    IF places = {} THEN <<>>
    ELSE LET least == CHOOSE a \in places :
                        \A b \in places :
                            \/ a = b
                            \/ TupleLess(CanonicalKey(reviews, a, byName),
                                         CanonicalKey(reviews, b, byName))
         IN  <<FindingAt(reviews, least)>> \o Ascending(reviews, places \ {least}, byName)

OrderByName(reviews) == Ascending(reviews, Places(reviews), TRUE)

OrderByRegistration(reviews) == Ascending(reviews, Places(reviews), FALSE)

(* The first n distinct recommendations met walking the findings in order. *)
RECURSIVE FirstDistinct(_, _, _)
FirstDistinct(findings, n, got) ==
    IF findings = <<>> \/ Len(got) = n THEN got
    ELSE FirstDistinct(Tail(findings), n,
            IF Head(findings).recommendation \in Range(got) THEN got
            ELSE Append(got, Head(findings).recommendation))

(* C8: top_recommendations is the first min(5, D) distinct recommendations  *)
(* met walking all findings in canonical order, D the number of distinct    *)
(* recommendations among all findings.                                      *)
C8_FirstFiveDistinctOfAll ==
    Returned =>
        result.top_recommendations =
            FirstDistinct(OrderByName(result.agent_reviews), 5, <<>>)

AllSeveritiesKnown == \A i \in 1..Len(all_findings) : all_findings[i].severity \in SeverityLevels

(* C9 as claimed: the sorted findings are in ascending order of (severity   *)
(* rank, line or 0, reviewer name, position in the reviewer's output).      *)
C9_OrderedByReviewerName ==
    (Returned /\ AllSeveritiesKnown) =>
        sorted_findings = OrderByName(result.agent_reviews)

(* C9 as amended: the sorted findings are in ascending order of (severity   *)
(* rank with 5 for a severity outside the five levels, line or 0, the       *)
(* reviewer's place in registration order, position in the reviewer's       *)
(* output).                                                                 *)
C9_OrderedByRegistration ==
    Returned => sorted_findings = OrderByRegistration(result.agent_reviews)

(* Security registered before Performance, a finding of each with the same  *)
(* severity and line, and two such findings of Security.                    *)
C9_Witness ==
    /\ Returned
    /\ NamesOf(agents) = <<"Security", "Performance">>
    /\ \E i, j, k \in 1..Len(sorted_findings) :
        /\ i < j /\ j < k
        /\ SortKey(sorted_findings[i]) = SortKey(sorted_findings[k])
        /\ sorted_findings[i].agent = "Security"
        /\ sorted_findings[j].agent = "Security"
        /\ sorted_findings[i] # sorted_findings[j]
        /\ sorted_findings[k].agent = "Performance"


(* The names of the recorded register_agent calls, each at its first call. *)
RECURSIVE FirstNames(_, _)
FirstNames(cs, seen) ==
    IF cs = <<>> THEN seen
    ELSE FirstNames(Tail(cs),
            IF Head(cs).name \in Range(seen) THEN seen
            ELSE Append(seen, Head(cs).name))

RegistrationOrder == FirstNames(calls, <<>>)

(* C11: the registry lists its entries in registration order (a name stands *)
(* where it was first registered), and the keys of the result mapping of    *)
(* every run that returns are in that order.                                *)
C11_RegistrationOrderKept ==
    /\ NamesOf(agents) = RegistrationOrder
    /\ Returned => ReviewKeys(result.agent_reviews) = RegistrationOrder

(* A run returned over two reviewers registered against the order of their  *)
(* names, one of them registered twice.                                     *)
C11_Witness ==
    /\ Returned
    /\ Len(agents) = 2
    /\ Len(calls) = 3
    /\ NameRank(agents[1].name) > NameRank(agents[2].name)
    /\ ReviewKeys(result.agent_reviews) = NamesOf(agents)


(* The answer is a JSON object with the keys "findings" and "summary". *)
IsReviewObject(resp) ==
    /\ resp.kind = "object"
    /\ resp.has_findings
    /\ resp.summary # Missing

(* An element of a findings array that a validating parser keeps. *)
HasKnownSeverity(f) == f.severity \in SeverityLevels

HasTexts(f) ==
    /\ f.description \notin {Missing, ""}
    /\ f.recommendation \notin {Missing, ""}

ValidElement(f) == HasKnownSeverity(f) /\ HasTexts(f)

AllElements(resp, Test(_)) ==
    \A i \in 1..Len(resp.findings) : Test(resp.findings[i])

(* The findings of the k-th executed agent when only valid elements are kept. *)
ValidFindings(k) ==
    BuildFindings(agents[k].name, SelectSeq(responses[k].findings, ValidElement))

(* C12: when a reviewer's answer is not parseable as JSON, the run ends     *)
(* with that reviewer's entry a Failure of kind ResponseParseError, every   *)
(* other reviewer was executed and has the outcome its own answer gives.    *)
C12_UnparseableIsolated ==
    Finished =>
        \A k \in 1..Len(responses) :
            responses[k].kind = "not_json" =>
                /\ Len(responses) = Len(agents)
                /\ result # NoReport
                /\ IsFailure(result.agent_reviews[k][2], "ResponseParseError")
                /\ \A j \in 1..Len(responses) :
                      RaisedBy(responses[j]) = "none" =>
                          result.agent_reviews[j][2]
                              = AnalyzeCodeReview(agents[j], responses[j])

(* C13: an answer that is valid JSON but not an object with both keys       *)
(* "findings" and "summary" gives a Failure of kind ResponseParseError,     *)
(* never a Success with defaulted findings or summary.                      *)
C13_WrongShapeIsParseFailure ==
    Finished =>
        \A k \in 1..Len(responses) :
            (responses[k].kind \in {"object", "non_object"}
                /\ ~IsReviewObject(responses[k])) =>
                /\ result # NoReport
                /\ IsFailure(result.agent_reviews[k][2], "ResponseParseError")

(* C14: an element that lacks "description" or "recommendation", or has it  *)
(* empty, is dropped alone: the reviewer's outcome is a Success with every  *)
(* other element of the answer, in order.                                   *)
C14_OnlyBadElementDropped ==
    Finished =>
        \A k \in 1..Len(responses) :
            (IsReviewObject(responses[k])
                /\ AllElements(responses[k], HasKnownSeverity)) =>
                /\ result # NoReport
                /\ result.agent_reviews[k][2].findings = ValidFindings(k)

(* C15: every finding of every Success outcome of a report has one of the   *)
(* five severity levels; an element with another severity is dropped and    *)
(* its valid siblings are retained.                                         *)
C15_SeveritiesAreLevels ==
    Returned =>
        \A k \in 1..Len(result.agent_reviews) :
            /\ \A i \in 1..Len(result.agent_reviews[k][2].findings) :
                  result.agent_reviews[k][2].findings[i].severity \in SeverityLevels
            /\ (IsReviewObject(responses[k]) /\ AllElements(responses[k], HasTexts)) =>
                  result.agent_reviews[k][2].findings = ValidFindings(k)


(* The error kind a failed call is listed with. *)
ErrorKindOf(resp) ==
    IF resp.kind = "api_error" THEN "InvocationError" ELSE "ResponseParseError"

(* The reviewer lines of the summary from the k-th executed agent on: the   *)
(* summary of one that succeeded with a non-empty summary, the error kind   *)
(* of one that failed.                                                      *)
RECURSIVE ReviewerLines(_)
ReviewerLines(k) ==
    IF k > Len(responses) THEN <<>>
    ELSE (IF RaisedBy(responses[k]) # "none"
          THEN <<<<agents[k].name, ErrorKindOf(responses[k])>>>>
          ELSE IF SummaryOf(responses[k]) # ""
          THEN <<<<agents[k].name, SummaryOf(responses[k])>>>>
          ELSE <<>>) \o ReviewerLines(k + 1)

(* C16: the consolidated summary of a run is a header naming the path given *)
(* to the run, the five severity counts, and one line per reviewer in       *)
(* registry order: its summary when it succeeded with a non-empty one, its  *)
(* error kind when it failed, no line when it succeeded with an empty one.  *)
C16_SummaryComposition ==
    Finished =>
        /\ result # NoReport
        /\ Len(responses) = Len(agents)
        /\ result.consolidated_summary.header = file_path
        /\ result.consolidated_summary.counts = SeverityCounts(all_findings)
        /\ result.consolidated_summary.lines = ReviewerLines(1)


(* detect_by_content has returned. *)
Detected == language # NoLanguage

RecognisedExtensions == {e[1] : e \in LANGUAGE_EXTENSIONS}

HasRecognisedExtension(cs) == LowerChars(Suffix(cs)) \in RecognisedExtensions

(* C17: detect_by_content returns detect_by_extension(path) whenever the    *)
(* path has a recognised extension, compared case-insensitively, whatever   *)
(* the code contains; the result depends on the content only when the path  *)
(* is empty or its extension is not recognised.                             *)
C17_ExtensionBeforeContent ==
    Detected =>
        IF HasRecognisedExtension(path_chars)
        THEN language = detect_by_extension(path_chars)
        ELSE language = detect_from_patterns(code)

(* A path with a recognised extension in upper case and a code text whose   *)
(* content is that of another language.                                     *)
C17_Witness ==
    /\ Detected
    /\ Suffix(path_chars) = <<".", "P", "y">>
    /\ detect_from_patterns(code) = "go"
    /\ language = "python"

(* C18: with no recognised extension, the result is "go" for every code     *)
(* text containing both "func " and "package ", and "python" for every code *)
(* text containing "import " with "from " or "import sys".                  *)
C18_GoAndPythonByContent ==
    (Detected /\ ~HasRecognisedExtension(path_chars)) =>
        /\ ({"func ", "package "} \subseteq code) => language = "go"
        /\ ("import " \in code /\ ({"from ", "import sys"} \cap code # {})) =>
              language = "python"

(* C19: detect_by_content returns one of the six tags for every code text   *)
(* and every path, and the tag is the one any other call with the same      *)
(* code text and path returns.                                              *)
C19_TotalOverTags ==
    Detected =>
        /\ language \in LanguageTags
        /\ language = detect_by_content(code, path_chars)

(* Neither the extension nor the content is recognised. *)
C19_Witness ==
    /\ Detected
    /\ language = "unknown"
    /\ Suffix(path_chars) = <<".", "p">>
    /\ code = {"fn "}


ReRegistered ==
    /\ Len(calls') = Len(calls) + 1
    /\ calls'[Len(calls')].name \in Range(NamesOf(agents))

(* C27: registering again a name that is registered replaces the reviewer   *)
(* and leaves every name where it was, the re-registered one at the place   *)
(* of its first registration; the keys of a report returned later follow    *)
(* that order.                                                              *)
C27_ReRegistrationKeepsPlace ==
    [][/\ ReRegistered =>
            /\ NamesOf(agents') = NamesOf(agents)
            /\ agents'[IndexOfName(agents, calls'[Len(calls')].name)]
                   = calls'[Len(calls')]
       /\ Returned' => ReviewKeys(result'.agent_reviews) = RegistrationOrder']_vars

(* A report returned after the first of two names was registered again with *)
(* another agent: it is still first, with the new agent.                    *)
C27_Witness ==
    /\ Returned
    /\ Len(calls) = 3
    /\ Len(agents) = 2
    /\ calls[3].name = calls[1].name
    /\ calls[3] # calls[1]
    /\ agents[1] = calls[3]
    /\ result.agent_reviews[1][1] = calls[3].name

(* The code text matches the python pattern of the if/elif chain. *)
MatchesPython(text) ==
    "import " \in text /\ ({"from ", "import sys"} \cap text # {})

(* C30: with no recognised extension, the result is "rust" for a code text  *)
(* that contains both "fn " and "let " and does not match the python        *)
(* pattern.                                                                 *)
C30_RustByContent ==
    (/\ Detected
     /\ ~HasRecognisedExtension(path_chars)
     /\ {"fn ", "let "} \subseteq code
     /\ ~MatchesPython(code)) => language = "rust"


(* The detect_by_content calls made in the run so far: one per executed agent. *)
DetectCalls == Len(prompts)

C22_PromptByLanguageWithDefault ==
    /\ Len(prompts) = Len(responses)
    /\ \A i \in 1..Len(prompts) :
          /\ prompts[i].language \in LanguageTags
          /\ prompts[i].system_prompt.base_prompt = agents[i].name
          /\ prompts[i].system_prompt.language_specific =
                 (IF prompts[i].language \in {"python", "javascript", "go", "rust"}
                  THEN prompts[i].language
                  ELSE "")

(* A reviewer given a typescript file: the base prompt alone. *)
C22_Witness ==
    /\ Len(prompts) = 2
    /\ prompts[2].language = "typescript"
    /\ prompts[2].system_prompt.language_specific = ""
    /\ prompts[1].system_prompt.base_prompt # prompts[2].system_prompt.base_prompt


(* C23: a report is not changed after review_code returned it: the step of  *)
(* _report_to_dict leaves every field of the report as it was and copies    *)
(* them into the dictionary, and in the report that is returned each        *)
(* reviewer's findings are those of its answer, in the answer's order,      *)
(* whatever the sort for the top recommendations did.                       *)
C23_ReportUnchangedAfterReturn ==
    [][/\ (pc = "done" /\ pc' = "done") =>
            /\ result' = result
            /\ rendered' = report_to_dict(result)
       /\ pc' = "done" =>
            \A k \in 1..Len(result'.agent_reviews) :
                result'.agent_reviews[k][2].findings
                    = BuildFindings(agents'[k].name, RawFindingsOf(responses'[k]))]_vars

(* A converted report with a review whose findings are not in sorted order. *)
C23_Witness ==
    /\ pc = "done"
    /\ rendered # NoDict
    /\ Len(result.agent_reviews) = 2
    /\ Len(result.agent_reviews[1][2].findings) = 2
    /\ result.agent_reviews[1][2].findings[1].severity = "low"
    /\ result.agent_reviews[1][2].findings[2].severity = "critical"
    /\ sorted_findings # all_findings
    /\ rendered.agent_reviews[1][2].findings[1].severity = "low"


(* The reviews of the run from the k-th executed agent on, each made of the *)
(* answer its agent got in this run.                                        *)
RECURSIVE RunReviews(_)
RunReviews(k) ==
    IF k > Len(responses) THEN <<>>
    ELSE <<<<agents[k].name, AnalyzeCodeReview(agents[k], responses[k])>>>>
         \o RunReviews(k + 1)

RunFindings == FindingsOfReviews(RunReviews(1))

(* C28: runs on the same orchestrator are independent: no step of a run     *)
(* changes the registry, and the report a run returns is the one made of    *)
(* the answers of that run alone, whatever earlier runs found.              *)
C28_RunsIndependent ==
    [][/\ pc # "idle" => agents' = agents
       /\ pc' = "done" =>
            result' = CodeReviewReport(file_path', RunReviews(1)', RunFindings',
                                       SortedFindings(RunFindings'))]_vars

(* A run without findings returned after a run with findings whose report   *)
(* the caller kept.                                                         *)
C28_Witness ==
    /\ Returned
    /\ prev # NoRun
    /\ prev.report.total_issues > 0
    /\ prev.agents = agents
    /\ Len(agents) >= 1
    /\ result.total_issues = 0
    /\ result.top_recommendations = <<>>

(* C29: in every report each entry of the result mapping is stored under    *)
(* the name of the reviewer that produced it, its agent_name is that name,  *)
(* and each of its findings has that name as agent and the name in lower    *)
(* case as category.                                                        *)
C29_EntriesAttributed ==
    Returned =>
        \A k \in 1..Len(result.agent_reviews) :
            LET name == result.agent_reviews[k][1]
                review == result.agent_reviews[k][2]
            IN  /\ name = agents[k].name
                /\ review.agent_name = name
                /\ \A i \in 1..Len(review.findings) :
                      /\ review.findings[i].agent = name
                      /\ review.findings[i].category = Lower(name)

(* A report of two reviewers, each with a finding. *)
C29_Witness ==
    /\ Returned
    /\ Len(result.agent_reviews) = 2
    /\ result.agent_reviews[1][2].findings # <<>>
    /\ result.agent_reviews[2][2].findings # <<>>
    /\ result.agent_reviews[1][2].findings[1].category = "performance"
    /\ result.agent_reviews[2][2].findings[1].agent = "Security"


(* The paths of the regular files among the matched ones, in their order. *)
RegularPaths(listing) ==
    [k \in 1..Len(RegularFiles(listing, 1)) |-> PathOf(RegularFiles(listing, 1)[k])]

IsErrorEntry(entry) == "error" \in DOMAIN entry

(* What reading a file or one of its reviewers can raise. *)
AnalysisErrors == {"OSError", "APIError", "JSONDecodeError", "AttributeError", "KeyError"}

(* C24: analyze_directory returns exactly one entry per matched regular     *)
(* file: the step that ends the analysis of a file stores the dictionary of *)
(* its report, or {"error": message} when the analysis raised, and goes on  *)
(* with the remaining files; no step changes an entry already stored.       *)
C24_OneEntryPerFile ==
    [][/\ (dir_pc = "looping" /\ Finished) =>
            /\ results' = Append(results,
                    <<PathOf(file_idx),
                      IF pc = "raised" THEN ErrorEntry(error) ELSE report_to_dict(result)>>)
            /\ dir_pc' = "looping"
            /\ file_idx' = file_idx + 1
       /\ \A k \in 1..Len(results) :
            k <= Len(results') /\ results'[k] = results[k]
       /\ dir_pc' = "returned" =>
            /\ ReviewKeys(results') = RegularPaths(files')
            /\ \A k \in 1..Len(results') :
                  \/ IsErrorEntry(results'[k][2])
                  \/ results'[k][2].file_name = results'[k][1]]_vars

(* The analysis of the first of two files raised in a reviewer, the second  *)
(* file has its report.                                                     *)
C24_Witness ==
    /\ dir_pc = "returned"
    /\ Len(files) = 2
    /\ Len(results) = 2
    /\ results[1] = <<"a.py", ErrorEntry("APIError")>>
    /\ ~IsErrorEntry(results[2][2])
    /\ results[2][2].file_name = "b.py"
    /\ results[2][2].total_issues = 1

(* C25: analyze_directory_async returns one entry per matched regular file  *)
(* under the file's own path, in whatever order the tasks ended; an entry   *)
(* is {"error": message} only for a file whose reading or whose reviewers   *)
(* raised, and the report dictionary otherwise.                             *)
C25_AsyncOneEntryPerFile ==
    dir_pc = "returned" =>
        /\ ReviewKeys(results) = RegularPaths(files)
        /\ \A k \in 1..Len(results) :
              IF IsErrorEntry(results[k][2])
              THEN results[k][2].error \in AnalysisErrors
              ELSE results[k][2].file_name = results[k][1]


(* The signature of the request is the digest of its payload under the     *)
(* webhook secret.                                                          *)
SignatureVerifies(req) ==
    req.signature = Sha256Header(webhook_secret, req.payload)

(* The step called review_pr or posted a comment. *)
ReviewStarted ==
    review_pr_calls' # review_pr_calls \/ comments_posted' # comments_posted

(* C26: the webhook handler starts a review only for a request whose        *)
(* signature verifies and whose action is opened or synchronize: an invalid *)
(* signature is answered 401, another action 200 "ignored", a payload       *)
(* without pull_request data 400, and in these three cases review_pr is not *)
(* called and no comment is posted.                                         *)
C26_WebhookGate ==
    [][/\ ~SignatureVerifies(http_request') =>
            /\ http_response'.status = 401
            /\ ~ReviewStarted
       /\ (SignatureVerifies(http_request')
             /\ http_request'.payload.action \notin {"opened", "synchronize"}) =>
            /\ http_response' = HttpResponse(200, "ignored")
            /\ ~ReviewStarted
       /\ (SignatureVerifies(http_request')
             /\ http_request'.payload.action \in {"opened", "synchronize"}
             /\ ~http_request'.payload.has_pr) =>
            /\ http_response'.status = 400
            /\ ~ReviewStarted]_vars

====
